---- MODULE Spec2Model ----
(***************************************************************************)
(* Model of the plotting drivers src/plot/plot_cs.py (cubed-sphere grid)   *)
(* and src/plot/plot_endgame.py (latitude-longitude grid).                 *)
(*                                                                         *)
(* Three specifications:                                                   *)
(*   SpecName  the snapshot filename construction (pure function)          *)
(*   SpecLoad  np.fromfile + np.reshape of one snapshot file (pure)        *)
(*   Spec      the two driver scripts, statement by statement              *)
(***************************************************************************)
EXTENDS Integers, Sequences, FiniteSets, TLC

VARIABLES
    \* ---- driver scripts (Spec)
    script,     \* "cs" (plot_cs.py) or "endgame" (plot_endgame.py)
    tc,         \* the test case constant of the script
    indexFile,  \* ../dump/TC<tc>_reftimes.dat: [exists, lines], a line a sequence of tokens
    disk,       \* ../dump/: [present |-> the snapshot filenames, damaged |-> <<>> or <<filename, kind>>]
    pc,         \* position of the script
    err,        \* the exception that ended the run, "" while none
    timedata,   \* the loaded index: [ndim, data]
    t,          \* loop variable t (0-based)
    p,          \* loop variable p (0-based, plot_cs only)
    k,          \* position inside one iteration: field being read or plotted (1-based)
    arrays,     \* slot -> (cell -> double): h,u,v,ud,vd (cs) / h,u,v,vort,pv (endgame)
    writes,     \* slot -> (cell -> number of assignments to the cell)
    opened,     \* sequence of the filenames passed to open(), in order
    images,     \* sequence of the images written, in order
    \* ---- filename construction (SpecName)
    nmKind, nmA, nmB, nmFileA, nmFileB,
    \* ---- single file load (SpecLoad)
    ldFile, ldRows, ldCols, ldOut

driverVars == <<script, tc, indexFile, disk, pc, err, timedata, t, p, k,
                arrays, writes, opened, images>>
nameVars   == <<nmKind, nmA, nmB, nmFileA, nmFileB>>
loadVars   == <<ldFile, ldRows, ldCols, ldOut>>
vars       == <<driverVars, nameVars, loadVars>>

(***************************************************************************)
(* Bounds of the model.                                                    *)
(***************************************************************************)
GridN     == 2   \* grid resolution N used by the driver model (48 / 128 in the scripts)
MaxTimes  == 2   \* largest number of tokens in the index file
MaxDim    == 2   \* largest R and C of SpecLoad

(***************************************************************************)
(* Program constants.                                                      *)
(***************************************************************************)
NumTiles == 6    \* for p in range(0,6)
gtype    == 2
ItemSize == 8    \* bytes of one np.float64

(***************************************************************************)
(* str(int): Python's decimal rendering of an integer.                     *)
(***************************************************************************)
DigitChars == <<"0", "1", "2", "3", "4", "5", "6", "7", "8", "9">>

RECURSIVE NatStr(_)
NatStr(n) ==
    IF n < 10 THEN DigitChars[n + 1]
    ELSE NatStr(n \div 10) \o DigitChars[(n % 10) + 1]

str(n) == IF n < 0 THEN "-" \o NatStr(-n) ELSE NatStr(n)

(***************************************************************************)
(* Snapshot filenames.                                                     *)
(***************************************************************************)
BasenameNoSep(c, g, n, name) ==
    "tc" \o str(c) \o str(g) \o "_N" \o str(n) \o "_" \o name

Basename(c, g, n, name) ==
    "tc" \o str(c) \o "_g" \o str(g) \o "_N" \o str(n) \o "_" \o name

FilenameCS(c, g, n, name, ts, face) ==
    Basename(c, g, n, name) \o "_t" \o str(ts) \o "_face" \o str(face + 1) \o ".dat"

StemLL(c, name, ts, n, m) ==
    "eg_swe_run_ic" \o str(c) \o "_cor1_" \o name \o "_t" \o str(ts)
        \o "_" \o str(n) \o "x" \o str(m)

FilenameLL(c, name, ts, n, m) == StemLL(c, name, ts, n, m) \o ".dat"

(***************************************************************************)
(* np.fromfile(z, dtype=np.float64) and np.reshape(z, (R, C)).             *)
(* A file is [words |-> the complete 8-byte groups, tail |-> the number of *)
(* bytes after the last complete group (0..7)].                            *)
(***************************************************************************)
NBytes(file) == ItemSize * Len(file.words) + file.tail

\* fromfile reads (size of the file) // itemsize items and ignores the rest
FromFile(file) == SubSeq(file.words, 1, NBytes(file) \div ItemSize)

ValueError == [status |-> "ValueError"]

ReshapeColMajor(z, R, C) ==
    IF Len(z) # R * C THEN ValueError
    ELSE [status |-> "ok",
          a |-> [c \in (0..(R - 1)) \X (0..(C - 1)) |-> z[c[2] * R + c[1] + 1]]]

\* C order: element (i, j) is item i*C + j of the flat array
Reshape(z, R, C) ==
    IF Len(z) # R * C THEN ValueError
    ELSE [status |-> "ok",
          a |-> [c \in (0..(R - 1)) \X (0..(C - 1)) |-> z[c[1] * C + c[2] + 1]]]

\* lines 55-56 of plot_cs.py, 62-63 of plot_endgame.py
LoadTile(file, R, C) == Reshape(FromFile(file), R, C)

(***************************************************************************)
(* Values the variables of a specification hold while another one runs.    *)
(***************************************************************************)
NoIndex == [exists |-> FALSE, lines |-> <<>>]   \* no index file in ../dump/

DriverIdle ==
    /\ script = "none" /\ tc = 0 /\ indexFile = NoIndex /\ disk = <<>>
    /\ pc = "idle" /\ err = "" /\ timedata = <<>> /\ t = 0 /\ p = 0 /\ k = 0
    /\ arrays = <<>> /\ writes = <<>> /\ opened = <<>> /\ images = <<>>

NameIdle ==
    /\ nmKind = "none" /\ nmA = <<>> /\ nmB = <<>> /\ nmFileA = "" /\ nmFileB = ""

LoadIdle ==
    /\ ldFile = <<>> /\ ldRows = 0 /\ ldCols = 0 /\ ldOut = <<>>

(***************************************************************************)
(* SpecName: two argument tuples are drawn, their filenames are built.     *)
(***************************************************************************)
NameIds     == {1, 11}          \* test case ids
NameGtypes  == {2, 12}
NameRes     == {4, 48}
NameTimes   == {0, 100}
NameFaces   == {0, 5}           \* values of the loop variable p
FieldsCS    == {"h", "u", "v"}
FieldsLL    == {"h", "u", "v", "pv", "vort"}
NameResLL   == {<<12, 8>>, <<1, 28>>, <<128, 64>>}

TuplesCS == [tc : NameIds, gtype : NameGtypes, N : NameRes, field : FieldsCS,
             ts : NameTimes, p : NameFaces]
TuplesLL == [tc : NameIds, field : FieldsLL, ts : NameTimes, NM : NameResLL]

\* lines 52-53 of plot_cs.py, line 60 of plot_endgame.py
BuildName(kind, a) ==
    IF kind = "cs" THEN FilenameCS(a.tc, a.gtype, a.N, a.field, a.ts, a.p)
    ELSE FilenameLL(a.tc, a.field, a.ts, a.NM[1], a.NM[2])

InitName ==
    /\ DriverIdle /\ LoadIdle
    /\ nmKind \in {"cs", "ll"}
    /\ nmA \in (IF nmKind = "cs" THEN TuplesCS ELSE TuplesLL)
    /\ nmB \in (IF nmKind = "cs" THEN TuplesCS ELSE TuplesLL)
    /\ nmFileA = "" /\ nmFileB = ""

BuildNames ==
    /\ nmFileA = ""
    /\ nmFileA' = BuildName(nmKind, nmA)
    /\ nmFileB' = BuildName(nmKind, nmB)
    /\ UNCHANGED <<nmKind, nmA, nmB, driverVars, loadVars>>

NextName == BuildNames
SpecName == InitName /\ [][NextName]_vars

(***************************************************************************)
(* SpecLoad: one snapshot file is loaded with an expected shape.           *)
(***************************************************************************)
DoubleVals == {10, 20}
TailBytes  == 0..(ItemSize - 1)

RECURSIVE SeqsOf(_, _)
SeqsOf(S, n) ==
    IF n = 0 THEN {<<>>}
    ELSE {Append(s, x) : s \in SeqsOf(S, n - 1), x \in S}

InitLoad ==
    /\ DriverIdle /\ NameIdle
    /\ ldRows \in 1..MaxDim
    /\ ldCols \in 1..MaxDim
    /\ \E n \in (ldRows * ldCols - 1)..(ldRows * ldCols + 1) :
         \E w \in SeqsOf(DoubleVals, n), b \in TailBytes :
            ldFile = [words |-> w, tail |-> b]
    /\ ldOut = <<>>

LoadField ==
    /\ ldOut = <<>>
    /\ ldOut' = LoadTile(ldFile, ldRows, ldCols)
    /\ UNCHANGED <<ldFile, ldRows, ldCols, driverVars, nameVars>>

NextLoad == LoadField
SpecLoad == InitLoad /\ [][NextLoad]_vars

(***************************************************************************)
(* Spec: the driver scripts.                                               *)
(***************************************************************************)
TestCases   == {2, 5, 7}          \* the test case ids the scripts know
figformat   == "png"
graphdir    == "../graphs/"
map_projection == "mercator"
GridM       == GridN \div 2       \* M = N//2

\* ---- the index file and np.loadtxt(...).astype(int)
DigitVal(c) == CHOOSE d \in 0..9 : DigitChars[d + 1] = c

RECURSIVE ParseNat(_)
ParseNat(s) ==
    IF Len(s) = 0 THEN 0
    ELSE 10 * ParseNat(SubSeq(s, 1, Len(s) - 1)) + DigitVal(SubSeq(s, Len(s), Len(s)))

\* the token read as a number and converted with astype(int)
AsInt(tok) ==
    IF SubSeq(tok, 1, 1) = "-" THEN 0 - ParseNat(SubSeq(tok, 2, Len(tok)))
    ELSE ParseNat(tok)

\* np.loadtxt: the rows of the file as a 2-D array, then squeezed (ndmin = 0)
LoadTxt(lines) ==
    LET rows == SelectSeq(lines, LAMBDA l : Len(l) > 0)
        r    == Len(rows)
        c    == IF r = 0 THEN 0 ELSE Len(rows[1])
        vals == [i \in 1..r |-> [j \in 1..c |-> AsInt(rows[i][j])]]
    IN  IF r = 0 THEN [ndim |-> 1, data |-> <<>>]
        ELSE IF r = 1 /\ c = 1 THEN [ndim |-> 0, data |-> vals[1][1]]
        ELSE IF r = 1 THEN [ndim |-> 1, data |-> vals[1]]
        ELSE IF c = 1 THEN [ndim |-> 1, data |-> [i \in 1..r |-> vals[i][1]]]
        ELSE [ndim |-> 2, data |-> vals]

\* index files: all tokens on one line, or one token per line
OneLine(toks)    == IF Len(toks) = 0 THEN <<>> ELSE <<toks>>
OnePerLine(toks) == [i \in 1..Len(toks) |-> <<toks[i]>>]

\* the reference times are written in increasing order, 100 apart
TokenSeqs  == {[i \in 1..n |-> str(100 * (i - 1))] : n \in 0..MaxTimes}
IndexFiles == {NoIndex} \cup {[exists |-> TRUE, lines |-> OneLine(s)] : s \in TokenSeqs}
                        \cup {[exists |-> TRUE, lines |-> OnePerLine(s)] : s \in TokenSeqs}

\* ---- the snapshot files
FieldNamesCS == <<"h", "u", "v">>                    \* the three load blocks of plot_cs
fields       == <<"h", "u", "v", "vort", "pv">>      \* the array variables, line 56
field_names  == <<"h", "u", "v", "pv", "vort">>      \* line 57

\* a double of a snapshot file, tagged with the file and the position it has there
Word(name, i) == <<name, i>>
Zero          == <<"", 0>>            \* an element of np.zeros

FileOf(name, n, b) == [words |-> [i \in 1..n |-> Word(name, i - 1)], tail |-> b]

FaultKinds == {"missing", "short", "tail"}

ExpectedRows(s) == GridN
ExpectedCols(s) == IF s = "cs" THEN GridN ELSE GridM

TimesOf(ix) ==
    UNION {{AsInt(ix.lines[i][j]) : j \in 1..Len(ix.lines[i])} : i \in 1..Len(ix.lines)}

ExpectedFiles(s, c, ix) ==
    IF s = "cs"
    THEN {FilenameCS(c, gtype, GridN, FieldNamesCS[i], ts, f) :
             i \in 1..3, ts \in TimesOf(ix), f \in 0..(NumTiles - 1)}
    ELSE {FilenameLL(c, field_names[i], ts, GridN, GridM) :
             i \in 1..5, ts \in TimesOf(ix)}

\* the dump directory: every expected file, well-formed, but for one fault
\* (<<>> for none): a file that is absent, one double short, or 3 bytes long
DiskWith(s, c, ix, fault) ==
    LET names == ExpectedFiles(s, c, ix)
    IN  IF fault = <<>> THEN [present |-> names, damaged |-> <<>>]
        ELSE IF fault[2] = "missing"
        THEN [present |-> names \ {fault[1]}, damaged |-> <<>>]
        ELSE [present |-> names, damaged |-> fault]

OnDisk(f) == f \in disk.present

FileAt(f) ==
    LET n    == ExpectedRows(script) * ExpectedCols(script)
        kind == IF disk.damaged # <<>> /\ disk.damaged[1] = f
                THEN disk.damaged[2] ELSE "ok"
    IN  CASE kind = "short" -> FileOf(f, n - 1, 0)
          [] kind = "tail"  -> FileOf(f, n, 3)
          [] OTHER          -> FileOf(f, n, 0)

\* ---- the color scale branches: the variables each branch defines.
\* pv bounds are in units of 1e-9 and vort bounds in units of 1e-6.
ColorScaleCS(c) ==
    CASE c = 2 -> [hmin |-> 1000, hmax |-> 3000, umin |-> -30, umax |-> -60]
      [] c = 5 -> [hmin |-> 5000, hmax |-> 6000, umin |-> -10, umax |-> 40,
                   vmin |-> -25, vmax |-> 25]
      [] c = 7 -> [hmin |-> 8800, hmax |-> 10500, umin |-> -50, umax |-> 50,
                   vmin |-> -50, vmax |-> 50]
      [] OTHER -> <<>>

ColorScaleEG(c) ==
    CASE c = 5 -> [hmin |-> 5000, hmax |-> 6000, umin |-> -10, umax |-> 40,
                   vmin |-> -25, vmax |-> 25, pvmin |-> -31, pvmax |-> 31,
                   vortmin |-> -36, vortmax |-> 47]
      [] c = 7 -> [hmin |-> 8400, hmax |-> 10500, umin |-> -20, umax |-> 85,
                   vmin |-> -45, vmax |-> 45, pvmin |-> -15, pvmax |-> 24,
                   vortmin |-> -89, vortmax |-> 98]
      [] OTHER -> <<>>

ColorScale(s, c) == IF s = "cs" THEN ColorScaleCS(c) ELSE ColorScaleEG(c)

Defined(scale, var) == var \in DOMAIN scale

\* ---- the arrays
CellsCS(R, C, T) == (0..(R - 1)) \X (0..(C - 1)) \X (0..(NumTiles - 1)) \X (0..(T - 1))
CellsEG(R, C, T) == (0..(R - 1)) \X (0..(C - 1)) \X (0..(T - 1))

Cells(s, T) ==
    IF s = "cs"
    THEN [h  |-> CellsCS(GridN, GridN, T), u |-> CellsCS(GridN, GridN, T),
          v  |-> CellsCS(GridN, GridN, T),
          ud |-> CellsCS(GridN, GridN + 1, T), vd |-> CellsCS(GridN + 1, GridN, T)]
    ELSE [h |-> CellsEG(GridN, GridM, T), u |-> CellsEG(GridN, GridM, T),
          v |-> CellsEG(GridN, GridM, T), vort |-> CellsEG(GridN, GridM, T),
          pv |-> CellsEG(GridN, GridM, T)]

\* np.zeros of every array of the script
Zeros(s, T) == [a \in DOMAIN Cells(s, T) |-> [c \in Cells(s, T)[a] |-> Zero]]

NoWrites(s, T) == [a \in DOMAIN Cells(s, T) |-> [c \in Cells(s, T)[a] |-> 0]]

\* does the assignment a[:,:,pp,tt] = z (cs) or a[:,:,tt] = z (endgame) write cell c
InSlice(s, c, pp, tt) ==
    IF s = "cs" THEN c[3] = pp /\ c[4] = tt ELSE c[3] = tt

AssignSlice(s, arr, z, pp, tt) ==
    [c \in DOMAIN arr |-> IF InSlice(s, c, pp, tt) THEN z[<<c[1], c[2]>>] ELSE arr[c]]

CountSlice(s, cnt, pp, tt) ==
    [c \in DOMAIN cnt |-> IF InSlice(s, c, pp, tt) THEN cnt[c] + 1 ELSE cnt[c]]

\* a[:,:,:,tt] (cs) or a[:,:,tt] (endgame)
SliceAt(s, arr, tt) ==
    IF s = "cs"
    THEN [c \in {<<x[1], x[2], x[3]>> : x \in DOMAIN arr} |-> arr[<<c[1], c[2], c[3], tt>>]]
    ELSE [c \in {<<x[1], x[2]>> : x \in DOMAIN arr} |-> arr[<<c[1], c[2], tt>>]]

\* ---- the statements
fixedVars == <<script, tc, indexFile, disk, nameVars, loadVars>>

\* len(timedata) of a 1-D array, and timedata[i]
NumTimes  == Len(timedata.data)
TimeAt(i) == timedata.data[i + 1]

\* an uncaught exception ends the script
Raise(e) ==
    /\ pc' = "error" /\ err' = e
    /\ UNCHANGED <<t, p, k, arrays, writes, images>>

Init ==
    /\ NameIdle /\ LoadIdle
    /\ script \in {"cs", "endgame"}
    /\ tc \in TestCases
    /\ indexFile \in IndexFiles
    /\ \E fault \in {<<>>} \cup (ExpectedFiles(script, tc, indexFile) \X FaultKinds) :
          disk = DiskWith(script, tc, indexFile, fault)
    /\ pc = "start" /\ err = "" /\ timedata = <<>>
    /\ t = 0 /\ p = 0 /\ k = 1
    /\ arrays = <<>> /\ writes = <<>> /\ opened = <<>> /\ images = <<>>

\* timedata = np.loadtxt(datadir+'TC'+str(tc)+"_reftimes.dat").astype(int)
LoadTimestamps ==
    /\ pc = "start"
    /\ IF ~indexFile.exists
       THEN /\ Raise("FileNotFoundError")
            /\ UNCHANGED timedata
       ELSE /\ timedata' = LoadTxt(indexFile.lines)
            /\ pc' = "alloc"
            /\ UNCHANGED <<err, t, p, k, arrays, writes, images>>
    /\ UNCHANGED <<opened, fixedVars>>

\* the np.zeros((.., len(timedata))) lines, then the entry of the first loop
Allocate ==
    /\ pc = "alloc"
    /\ IF timedata.ndim = 0
       THEN Raise("TypeError")                  \* len() of unsized object
       ELSE /\ arrays' = Zeros(script, NumTimes)
            /\ writes' = NoWrites(script, NumTimes)
            /\ pc' = IF NumTimes > 0 THEN "load"
                     ELSE IF script = "cs" THEN "done" ELSE "scales"
            /\ UNCHANGED <<err, t, p, k, images>>
    /\ UNCHANGED <<timedata, opened, fixedVars>>

\* the file read at the current position of the load loop
CurName == IF script = "cs" THEN FieldNamesCS[k] ELSE field_names[k]
CurArray == IF script = "cs" THEN FieldNamesCS[k] ELSE fields[k]
CurFilename ==
    IF script = "cs" THEN FilenameCS(tc, gtype, GridN, CurName, TimeAt(t), p)
    ELSE FilenameLL(tc, CurName, TimeAt(t), GridN, GridM)

\* for p in range(0,6): was pp the last tile
TilesFirstOnly(pp) == pp = 0

TilesDone(pp) == pp = NumTiles - 1

\* the step after one file of plot_cs is stored: next field, next tile, or the plots
AdvanceReadCS ==
    IF k < 3 THEN /\ k' = k + 1 /\ UNCHANGED <<pc, t, p>>
    ELSE IF ~TilesDone(p) THEN /\ p' = p + 1 /\ k' = 1 /\ UNCHANGED <<pc, t>>
    ELSE /\ pc' = "plot" /\ k' = 1 /\ UNCHANGED <<t, p>>

\* the step after one file of plot_endgame is stored: next field, next time, or line 72
AdvanceReadEG ==
    IF k < 5 THEN /\ k' = k + 1 /\ UNCHANGED <<pc, t, p>>
    ELSE IF t + 1 < NumTimes THEN /\ t' = t + 1 /\ k' = 1 /\ UNCHANGED <<pc, p>>
    ELSE /\ pc' = "scales" /\ k' = 1 /\ UNCHANGED <<t, p>>

AdvanceRead == IF script = "cs" THEN AdvanceReadCS ELSE AdvanceReadEG

SkipMissing ==
    /\ AdvanceRead
    /\ UNCHANGED <<err, arrays, writes, images>>

\* z = open(datadir+filename, 'rb') on a file that does not exist
FileNotFound == Raise("FileNotFoundError")

\* open, np.fromfile, np.reshape and the slice assignment of one snapshot file
ReadFile ==
    /\ opened' = Append(opened, CurFilename)
    /\ IF ~OnDisk(CurFilename)
       THEN FileNotFound
       ELSE LET z == LoadTile(FileAt(CurFilename), ExpectedRows(script), ExpectedCols(script))
            IN  IF z.status # "ok"
                THEN Raise("ValueError")         \* cannot reshape array
                ELSE /\ arrays' = [arrays EXCEPT ![CurArray] =
                                      AssignSlice(script, @, z.a, p, t)]
                     /\ writes' = [writes EXCEPT ![CurArray] =
                                      CountSlice(script, @, p, t)]
                     /\ AdvanceRead
                     /\ UNCHANGED <<err, images>>
    /\ UNCHANGED <<timedata, fixedVars>>

ReadCS == pc = "load" /\ script = "cs" /\ ReadFile

ReadEG == pc = "load" /\ script = "endgame" /\ ReadFile

\* plot_scalarfield of plotting_routines: writes output_name + '.' + figformat.
\* What it does with a range that is not increasing is not known: either outcome.
PlotScalarfield(q, output_name, fmin, fmax) ==
    {[ok |-> TRUE, path |-> output_name \o "." \o figformat]}
        \cup (IF fmin < fmax THEN {} ELSE {[ok |-> FALSE, path |-> ""]})

\* an image on disk: its path, what was drawn (array variable, slice, bounds) and
\* the field name and time its path and title carry
Image(path, name, array, q, fmin, fmax) ==
    [path |-> path, name |-> name, ts |-> TimeAt(t), t |-> t, array |-> array,
     data |-> q, fmin |-> fmin, fmax |-> fmax]

AdvancePlotCSShort ==
    IF k < 2 THEN /\ k' = k + 1 /\ UNCHANGED <<pc, t, p>>
    ELSE IF t + 1 < NumTimes THEN /\ pc' = "load" /\ t' = t + 1 /\ p' = 0 /\ k' = 1
    ELSE /\ pc' = "done" /\ UNCHANGED <<t, p, k>>

\* the step after one plot of plot_cs: next field, next time, or the end
AdvancePlotCS ==
    IF k < 3 THEN /\ k' = k + 1 /\ UNCHANGED <<pc, t, p>>
    ELSE IF t + 1 < NumTimes THEN /\ pc' = "load" /\ t' = t + 1 /\ p' = 0 /\ k' = 1
    ELSE /\ pc' = "done" /\ UNCHANGED <<t, p, k>>

\* one of the three plot blocks of plot_cs (lines 92-109)
PlotCS ==
    /\ pc = "plot" /\ script = "cs"
    /\ LET name  == FieldNamesCS[k]
           scale == ColorScaleCS(tc)
           out   == graphdir \o Basename(tc, gtype, GridN, name) \o "_t" \o str(TimeAt(t))
       IN  IF ~(Defined(scale, name \o "min") /\ Defined(scale, name \o "max"))
           THEN Raise("NameError")
           ELSE \E r \in PlotScalarfield(SliceAt(script, arrays[name], t), out,
                                         scale[name \o "min"], scale[name \o "max"]) :
                   IF ~r.ok THEN Raise("RenderError")
                   ELSE /\ images' = Append(images,
                               Image(r.path, name, name, SliceAt(script, arrays[name], t),
                                     scale[name \o "min"], scale[name \o "max"]))
                        /\ AdvancePlotCS
                        /\ UNCHANGED <<err, arrays, writes>>
    /\ UNCHANGED <<timedata, opened, fixedVars>>

\* lines 72-73 of plot_endgame: fmins = [...], fmaxs = [...]
fminsByArray == <<"hmin", "umin", "vmin", "vortmin", "pvmin">>

fmins == <<"hmin", "umin", "vmin", "pvmin", "vortmin">>

fmaxs == <<"hmax", "umax", "vmax", "pvmax", "vortmax">>

ScalesEG ==
    /\ pc = "scales" /\ script = "endgame"
    /\ IF \E i \in 1..5 : ~(Defined(ColorScaleEG(tc), fmins[i])
                             /\ Defined(ColorScaleEG(tc), fmaxs[i]))
       THEN Raise("NameError")
       ELSE /\ pc' = IF NumTimes > 0 THEN "plot" ELSE "done"
            /\ t' = 0 /\ k' = 1
            /\ UNCHANGED <<err, p, arrays, writes, images>>
    /\ UNCHANGED <<timedata, opened, fixedVars>>

\* the step after one plot of plot_endgame: next field, next time, or exit()
AdvancePlotEG ==
    IF k < 5 THEN /\ k' = k + 1 /\ UNCHANGED <<pc, t, p>>
    ELSE IF t + 1 < NumTimes THEN /\ t' = t + 1 /\ k' = 1 /\ UNCHANGED <<pc, p>>
    ELSE /\ pc' = "done" /\ UNCHANGED <<t, p, k>>

\* the body of the plot loop of plot_endgame (lines 76-107)
PlotEG ==
    /\ pc = "plot" /\ script = "endgame"
    /\ LET name  == field_names[k]
           q     == SliceAt(script, arrays[fields[k]], t)
           fmin  == ColorScaleEG(tc)[fmins[k]]
           fmax  == ColorScaleEG(tc)[fmaxs[k]]
           file  == StemLL(tc, name, TimeAt(t), GridN, GridM)
       IN  IF ~(fmin < fmax)
           THEN Raise("ValueError")              \* contour levels must be increasing
           ELSE /\ images' = Append(images,
                       Image(graphdir \o file \o "." \o figformat, name, fields[k], q,
                             fmin, fmax))
                /\ AdvancePlotEG
                /\ UNCHANGED <<err, arrays, writes>>
    /\ UNCHANGED <<timedata, opened, fixedVars>>

Next ==
    \/ LoadTimestamps
    \/ Allocate
    \/ ReadCS
    \/ PlotCS
    \/ ReadEG
    \/ ScalesEG
    \/ PlotEG

Spec == Init /\ [][Next]_vars

(***************************************************************************)
(* Properties.                                                             *)
(***************************************************************************)

\* C1: a payload of exactly R*C doubles loads to an R x C array whose element
\* (i, j) is the (i*C + j)-th double of the file.
C1_RowMajor ==
    (ldOut # <<>> /\ NBytes(ldFile) = ldRows * ldCols * ItemSize) =>
        /\ ldOut.status = "ok"
        /\ DOMAIN ldOut.a = (0..(ldRows - 1)) \X (0..(ldCols - 1))
        /\ \A i \in 0..(ldRows - 1), j \in 0..(ldCols - 1) :
              ldOut.a[<<i, j>>] = ldFile.words[i * ldCols + j + 1]

\* a 2 x 2 array was loaded from a file whose second and third doubles differ
C1_Witness ==
    /\ ldOut # <<>> /\ ldRows = 2 /\ ldCols = 2
    /\ ldOut.status = "ok"
    /\ ldFile.words[2] # ldFile.words[3]

\* C2: a file whose byte length is not R*C*8 (in particular not a multiple of 8)
\* always fails to load.
C2_MismatchFails ==
    (ldOut # <<>> /\ NBytes(ldFile) # ldRows * ldCols * ItemSize) =>
        ldOut.status = "ValueError"

\* C5: distinct argument tuples give distinct filenames (and equal tuples equal
\* ones), and the digits after "_face" are the loop index plus 1.
IsDigit(c) == \E d \in 1..10 : DigitChars[d] = c

RECURSIVE DigitSuffix(_)
DigitSuffix(s) ==
    IF Len(s) = 0 \/ ~IsDigit(SubSeq(s, Len(s), Len(s))) THEN ""
    ELSE DigitSuffix(SubSeq(s, 1, Len(s) - 1)) \o SubSeq(s, Len(s), Len(s))

FaceIn(filename) ==
    LET stem   == SubSeq(filename, 1, Len(filename) - 4)
        digits == DigitSuffix(stem)
        before == SubSeq(stem, 1, Len(stem) - Len(digits))
    IN  IF Len(before) >= 5 /\ SubSeq(before, Len(before) - 4, Len(before)) = "_face"
        THEN ParseNat(digits) ELSE -1

C5_Injective ==
    nmFileA # "" =>
        /\ (nmFileA = nmFileB) <=> (nmA = nmB)
        /\ nmKind = "cs" => FaceIn(nmFileA) = nmA.p + 1 /\ FaceIn(nmFileB) = nmB.p + 1

\* the names of (tc 1, gtype 12) and (tc 11, gtype 2), all else equal, were built
C5_Witness ==
    /\ nmKind = "cs" /\ nmFileA # ""
    /\ nmA.tc = 1 /\ nmA.gtype = 12 /\ nmB.tc = 11 /\ nmB.gtype = 2
    /\ nmA.N = nmB.N /\ nmA.field = nmB.field /\ nmA.ts = nmB.ts /\ nmA.p = nmB.p
    /\ nmA.p = 5
    /\ nmFileA # nmFileB

\* ---- the driver scripts
\* the tokens of the index file, in file order
IndexTokens ==
    LET l == indexFile.lines
    IN  IF Len(l) = 1 THEN l[1] ELSE [i \in 1..Len(l) |-> l[i][1]]

Ended == pc \in {"done", "error"}

\* the arrays a script loads, and its number of tiles
LoadedArrays == IF script = "cs" THEN {"h", "u", "v"} ELSE {"h", "u", "v", "vort", "pv"}
TileCount    == IF script = "cs" THEN NumTiles ELSE 1

\* the snapshot file a script stores in cell c of `array` (any time index)
SourceName(array) ==
    IF script = "cs" THEN array
    ELSE field_names[CHOOSE i \in 1..5 : fields[i] = array]

\* the snapshot file of (name, ts, tile), the tile of cell c of a slice, and the
\* position in the file of the double that belongs in cell c
SourceFile(name, ts, tile) ==
    IF script = "cs" THEN FilenameCS(tc, gtype, GridN, name, ts, tile)
    ELSE FilenameLL(tc, name, ts, GridN, GridM)

Tiles       == 0..(TileCount - 1)
TileOf(c)   == IF script = "cs" THEN c[3] ELSE 0
OffsetOf(c) == c[1] * ExpectedCols(script) + c[2]

\* C3: an index file of k >= 0 integer tokens loads to the sequence of exactly those
\* integers and the run iterates over exactly those timestamps (k = 1 included); an
\* empty file reads and writes nothing; a missing file fails before any read.
C3_IndexLoaded ==
    /\ (indexFile.exists /\ pc # "start") =>
          /\ timedata.ndim = 1
          /\ timedata.data = [i \in 1..Len(IndexTokens) |-> AsInt(IndexTokens[i])]
          /\ err # "TypeError"
    /\ (indexFile.exists /\ pc = "done") =>
          {images[i].t : i \in 1..Len(images)} = 0..(Len(IndexTokens) - 1)
    /\ (indexFile.exists /\ Len(IndexTokens) = 0) => opened = <<>> /\ images = <<>>
    /\ (~indexFile.exists /\ pc # "start") => pc = "error" /\ opened = <<>>

\* C4: when every expected file exists and is well-formed, the run has, at its end,
\* read one file per (field, timestamp, tile) and written every cell of every
\* loaded array exactly once.
C4_ExactlyOnce ==
    (Ended /\ indexFile.exists /\ disk = DiskWith(script, tc, indexFile, <<>>)) =>
        LET T == Len(IndexTokens)
        IN  /\ Len(opened) = Cardinality(LoadedArrays) * T * TileCount
            /\ Cardinality({opened[i] : i \in 1..Len(opened)}) = Len(opened)
            /\ \A a \in LoadedArrays :
                  /\ a \in DOMAIN writes
                  /\ Cardinality(DOMAIN writes[a]) =
                        ExpectedRows(script) * ExpectedCols(script) * TileCount * T
                  /\ \A c \in DOMAIN writes[a] : writes[a][c] = 1

\* C6: the read of an absent snapshot file ends the run in an error; the file is
\* not skipped, and after the error nothing more is read, stored or written.
C6_MissingIsFatal ==
    [][/\ (pc = "load" /\ ~OnDisk(CurFilename)) =>
            /\ pc' = "error" /\ err' = "FileNotFoundError"
            /\ opened' = Append(opened, CurFilename)
            /\ UNCHANGED <<t, p, k, arrays, writes, images>>
       /\ pc = "error" => UNCHANGED vars]_vars

\* the run of plot_cs died on an absent file of the second timestamp
C6_Witness ==
    /\ pc = "error" /\ err = "FileNotFoundError" /\ script = "cs"
    /\ t = 1 /\ Len(opened) > 1 /\ images # <<>>
    /\ ~OnDisk(opened[Len(opened)])

\* C7 (as stated): a run that ends in an error has written no image.
C7_NoImageOnError == pc = "error" => images = <<>>

\* C7 (amended): plot_endgame has written no image when it ends in an error;
\* plot_cs, ending in an error at time index t, has written the h, u, v images of
\* every earlier time index, those of the fields plotted before a failing plot
\* call at t, and none of a later one.
C7_ErrorKeepsEarlierImages ==
    pc = "error" =>
        /\ script = "endgame" => images = <<>>
        /\ script = "cs" =>
              /\ Len(images) =
                    3 * t + (IF err \in {"NameError", "RenderError"} THEN k - 1 ELSE 0)
              /\ \A i \in 1..Len(images) :
                    /\ images[i].t = (i - 1) \div 3
                    /\ images[i].name = FieldNamesCS[((i - 1) % 3) + 1]

\* plot_cs with tc = 7 failed on a malformed or absent file of the second
\* timestamp, after the three images of the first
C7_Witness ==
    /\ pc = "error" /\ script = "cs" /\ err \in {"FileNotFoundError", "ValueError"}
    /\ tc = 7 /\ t = 1 /\ Len(images) = 3

\* C8: every rendered slice holds, in every cell of every tile, a double loaded
\* from the snapshot file of that array, timestamp and tile; ud and vd, which are
\* never loaded, are never rendered.
C8_NoZeroSliceRendered ==
    \A i \in 1..Len(images) :
        LET img == images[i]
        IN  /\ img.array \in LoadedArrays
            /\ \A tile \in Tiles :
                  LET file == SourceFile(SourceName(img.array), img.ts, tile)
                  IN  /\ \E j \in 1..Len(opened) : opened[j] = file
                      /\ OnDisk(file)
                      /\ \A c \in DOMAIN img.data :
                            /\ img.data[c] # Zero
                            /\ TileOf(c) = tile => img.data[c] = Word(file, OffsetOf(c))

\* plot_cs has rendered the second timestamp
C8_Witness ==
    /\ script = "cs"
    /\ \E i \in 1..Len(images) : images[i].t = 1 /\ images[i].name = "v"

\* C9: every test case with a color scale branch defines, for every rendered field,
\* a (min, max) pair with min < max: its runs never end in a NameError and no
\* plot call is handed an inverted range (one that is either fails in the
\* renderer or writes an image with fmin >= fmax).
ConfiguredIds(s) == {c \in TestCases : DOMAIN ColorScale(s, c) # {}}

C9_ScalesComplete ==
    tc \in ConfiguredIds(script) =>
        /\ err # "NameError"
        /\ err # "RenderError"
        /\ \A i \in 1..Len(images) : images[i].fmin < images[i].fmax

\* C10: in plot_endgame the image written under field name n and timestamp ts is
\* drawn from the data of the snapshot file named with n and ts, with the bounds
\* configured for n.
C10_Aligned ==
    script = "endgame" =>
        \A i \in 1..Len(images) :
            LET img == images[i]
            IN  /\ img.path = graphdir \o StemLL(tc, img.name, img.ts, GridN, GridM)
                                  \o "." \o figformat
                /\ \A c \in DOMAIN img.data :
                      img.data[c] = Word(SourceFile(img.name, img.ts, 0), OffsetOf(c))
                /\ img.fmin = ColorScaleEG(tc)[img.name \o "min"]
                /\ img.fmax = ColorScaleEG(tc)[img.name \o "max"]

\* plot_endgame has written the pv and the vort image of the second timestamp
C10_Witness ==
    /\ script = "endgame"
    /\ \E i, j \in 1..Len(images) :
          /\ images[i].name = "pv" /\ images[i].t = 1
          /\ images[j].name = "vort" /\ images[j].t = 1

====
